---------------------------- MODULE Spec2Model ----------------------------
(***************************************************************************)
(* bigint-rs: a byte-sequence big integer (BigInt), the AsBytes conversion *)
(* of the native numeric types, and the addition of two BigInts.           *)
(*                                                                         *)
(* A BigInt is the record [backing, discard_carry] of src/bigint/src/      *)
(* bigint.rs.  The state machine is a caller of the library: it builds two *)
(* operands with the three constructors, adds them, may use the sum as an  *)
(* operand of a further addition, and converts a BigInt back to a native   *)
(* type.                                                                   *)
(***************************************************************************)
EXTENDS Integers, Sequences, FiniteSets, TLC

(***************************************************************************)
(* Bounds of the exploration.                                              *)
(***************************************************************************)
\* longest byte vector handed to from_backing
MaxLen == 2
\* largest capacity handed to with_capacity
MaxCapacity == 1
\* how many additions deep a sum is used as an operand
MaxChain == 1

\* byte values the raw backing vectors are drawn from: a few, and some more
\* where the caller adds only once
FewBytes == {0, 255}
SomeBytes == {0, 1, 255}
MoreBytes == {0, 1, 2, 17, 255}

(***************************************************************************)
(* u8 arithmetic.                                                          *)
(***************************************************************************)
\* number of values of a u8
U8Range == 2 ^ 8

Pow256(k) == U8Range ^ k

Max(x, y) == IF x >= y THEN x ELSE y

Reverse(s) == [i \in 1..Len(s) |-> s[Len(s) + 1 - i]]

\* Option<T>: None is the empty sequence, Some(v) the one-element sequence
None == << >>
Some(v) == << v >>

(***************************************************************************)
(* as_bytes.rs: the native types given an AsBytes implementation.  The     *)
(* model keeps the types whose values fit TLC's integers: u8, u16, i8,     *)
(* i16, i32 and f32 (u32, u64, u128, usize, i64, i128, isize and f64 come  *)
(* from the same macro with other widths).  An f32 value is named by its   *)
(* bit pattern read as a 32-bit two's complement integer.                  *)
(***************************************************************************)
KeepCarryTypes == {"u8", "u16"}
DiscardCarryTypes == {"i8", "i16", "i32", "f32"}
Types == KeepCarryTypes \cup DiscardCarryTypes

FloatTypes == {"f32"}
UnsignedTypes == {"u8", "u16"}

\* size_of::<T>() in bytes
Width(T) ==
    CASE T \in {"u8", "i8"} -> 1
      [] T \in {"u16", "i16"} -> 2
      [] T \in {"i32", "f32"} -> 4

\* i32::MIN, and the bit pattern of -0.0f32
MinI32 == (-2147483647) - 1

\* bit pattern of f32::INFINITY: exponent all ones, fraction zero
F32Inf == 255 * (2 ^ 23)

\* values of each type handed to from_value
Values(T) ==
    CASE T = "u8" -> {3, 16, 255}
      [] T = "u16" -> {258, 701, 65535}
      [] T = "i8" -> {-128, -1, 127}
      [] T = "i16" -> {-32768, -4, 701}
      [] T = "i32" -> {MinI32, -4, 10}
      \* 1.0, -0.0, f32::NAN, f32::NEG_INFINITY
      [] T = "f32" -> {1065353216, MinI32, 2143289344, -8388608}

\* the bit pattern of an f32 without its sign bit
F32Magnitude(bits) == IF bits >= 0 THEN bits ELSE (bits + 2147483647) + 1

F32IsNaN(bits) == F32Magnitude(bits) > F32Inf

\* PartialEq of T, as assert_eq! uses it
eq(T, x, y) ==
    IF T \in FloatTypes
      THEN /\ ~F32IsNaN(x)
           /\ ~F32IsNaN(y)
           /\ \/ x = y
              \/ F32Magnitude(x) = 0 /\ F32Magnitude(y) = 0
      ELSE x = y

\* PartialEq of Option<T>
OptionEq(T, x, y) ==
    /\ Len(x) = Len(y)
    /\ Len(x) = 1 => eq(T, x[1], y[1])

\* T::to_le_bytes: byte k (from 1) is bits 8(k-1) .. 8k-1 of the two's
\* complement (or IEEE) bit pattern
to_le_bytes(T, v) == [k \in 1..Width(T) |-> (v \div Pow256(k - 1)) % U8Range]

\* T::from_le_bytes: the top byte carries the sign for signed and float types
from_le_bytes(T, bytes) ==
    LET w == Width(T)
        low == IF w = 1 THEN 0
               ELSE LET S[k \in 0..(w - 1)] ==
                          IF k = 0 THEN 0
                          ELSE S[k - 1] + bytes[k] * Pow256(k - 1)
                    IN S[w - 1]
        top == IF T \in UnsignedTypes \/ bytes[w] < 128
                 THEN bytes[w]
                 ELSE bytes[w] - U8Range
    IN low + top * Pow256(w - 1)

\* T::to_ne_bytes on a target of the given byte order
to_ne_bytes(T, v, order) ==
    IF order = "little" THEN to_le_bytes(T, v) ELSE Reverse(to_le_bytes(T, v))

\* mutant: the bytes are read as little-endian whatever the target
from_ne_bytes_LittleOnly(T, bytes, order) == from_le_bytes(T, bytes)

\* T::from_ne_bytes on a target of the given byte order
from_ne_bytes(T, bytes, order) ==
    IF order = "little" THEN from_le_bytes(T, bytes)
    ELSE from_le_bytes(T, Reverse(bytes))

\* AsBytes::as_bytes
as_bytes(T, v, order) == to_ne_bytes(T, v, order)

\* mutant: a shorter byte sequence is accepted and zero-extended
from_bytes_ZeroExtends(T, bytes, order) ==
    IF Len(bytes) > Width(T) THEN None
    ELSE Some(from_le_bytes(T, [k \in 1..Width(T) |->
                                  IF k <= Len(bytes) THEN bytes[k] ELSE 0]))

\* AsBytes::from_bytes: try_into::<[u8; N]> fails unless the length is N
from_bytes(T, bytes, order) ==
    IF Len(bytes) # Width(T) THEN None
    ELSE Some(from_ne_bytes(T, bytes, order))

\* mutant: the float types are left out of the discarding list
keep_carry_IntegersOnly(T) == T \in DiscardCarryTypes \ FloatTypes

\* AsBytes::keep_carry: single_impl!($keep_carry, false) for the types listed
\* under keep_carry, single_impl!($discard_carry, true) for the others
keep_carry(T) == T \in DiscardCarryTypes

(***************************************************************************)
(* bigint.rs: the BigInt struct and its constructors.                      *)
(***************************************************************************)
\* #[derive(Default)]: an empty vector and false
Default == [backing |-> << >>, discard_carry |-> FALSE]

\* BigInt::with_capacity: an empty vector (of the given capacity)
with_capacity(capacity) == [backing |-> << >>, discard_carry |-> FALSE]

\* mutant: a raw-built BigInt discards
from_backing_Discarding(backing) == [backing |-> backing, discard_carry |-> TRUE]

\* BigInt::from_backing
from_backing(backing) == [backing |-> backing, discard_carry |-> FALSE]

\* BigInt::from_value: discard_carry is T::keep_carry()
from_value(T, value, order) ==
    [backing |-> as_bytes(T, value, order), discard_carry |-> keep_carry(T)]

\* BigInt::to_value
to_value(self, T, order) == from_bytes(T, self.backing, order)

(***************************************************************************)
(* bigint.rs: Add<&BigInt> for &BigInt.                                    *)
(***************************************************************************)
\* u8::overflowing_add: the wrapped sum and whether it overflowed
overflowing_add(x, y) ==
    [output |-> (x + y) % U8Range, overflow |-> (x + y) >= U8Range]

\* bool as u8
AsU8(b) == IF b THEN 1 ELSE 0

\* itertools zip_longest: Both while both vectors have a byte, then Left or
\* Right for the rest of the longer one
zip_longest(left, right) ==
    [i \in 1..Max(Len(left), Len(right)) |->
        IF i <= Len(left) /\ i <= Len(right)
          THEN [kind |-> "Both", left |-> left[i], right |-> right[i]]
        ELSE IF i <= Len(left)
          THEN [kind |-> "Left", single |-> left[i]]
          ELSE [kind |-> "Right", single |-> right[i]]]

\* mutant: the Left/Right arm copies the byte and forgets the carry
LoopBody_SingleForgetsCarry(item, carry) ==
    IF item.kind = "Both"
      THEN LET a == overflowing_add(item.left, item.right)
               b == overflowing_add(a.output, carry)
           IN [byte |-> b.output,
               overflow |-> AsU8(a.overflow) + AsU8(b.overflow),
               overflow_a |-> a.overflow,
               overflow_b |-> b.overflow]
      ELSE [byte |-> item.single, overflow |-> 0,
            overflow_a |-> FALSE, overflow_b |-> FALSE]

\* mutant: the second addition of the Both arm adds the carry to the left
\* byte, not to the first addition's output
LoopBody_SecondAddsLeft(item, carry) ==
    IF item.kind = "Both"
      THEN LET a == overflowing_add(item.left, item.right)
               b == overflowing_add(item.left, carry)
           IN [byte |-> b.output,
               overflow |-> AsU8(a.overflow) + AsU8(b.overflow),
               overflow_a |-> a.overflow,
               overflow_b |-> b.overflow]
      ELSE LET s == overflowing_add(item.single, carry)
           IN [byte |-> s.output,
               overflow |-> AsU8(s.overflow),
               overflow_a |-> FALSE,
               overflow_b |-> s.overflow]

\* mutant: the Both arm takes the second overflow from the sum before it
\* was wrapped
LoopBody_UnwrappedSecond(item, carry) ==
    IF item.kind = "Both"
      THEN LET a == overflowing_add(item.left, item.right)
               b == overflowing_add(a.output, carry)
               late == (item.left + item.right + carry) >= U8Range
           IN [byte |-> b.output,
               overflow |-> AsU8(a.overflow) + AsU8(late),
               overflow_a |-> a.overflow,
               overflow_b |-> late]
      ELSE LET s == overflowing_add(item.single, carry)
           IN [byte |-> s.output,
               overflow |-> AsU8(s.overflow),
               overflow_a |-> FALSE,
               overflow_b |-> s.overflow]

\* the match of the loop body: the byte of this position, the number of
\* overflows, and the two overflow flags of the Both arm
LoopBody(item, carry) ==
    IF item.kind = "Both"
      THEN LET a == overflowing_add(item.left, item.right)
               b == overflowing_add(a.output, carry)
           IN [byte |-> b.output,
               overflow |-> AsU8(a.overflow) + AsU8(b.overflow),
               overflow_a |-> a.overflow,
               overflow_b |-> b.overflow]
      ELSE LET s == overflowing_add(item.single, carry)
           IN [byte |-> s.output,
               overflow |-> AsU8(s.overflow),
               overflow_a |-> FALSE,
               overflow_b |-> s.overflow]

\* the for loop: out and carry after the items from position pos on, and
\* the value carry took after each iteration
RECURSIVE AddLoop(_, _, _, _, _)
AddLoop(items, pos, out, carry, steps) ==
    IF pos > Len(items)
      THEN [out |-> out, carry |-> carry, steps |-> steps]
      ELSE LET r == LoopBody(items[pos], carry)
           IN AddLoop(items, pos + 1, Append(out, r.byte), r.overflow,
                      Append(steps, r))

\* mutant: the carry is dropped only when both operands discard
PushCarry_UnlessBothDiscard(carry, self, rhs) ==
    ~(carry = 0 \/ (self.discard_carry /\ rhs.discard_carry))

\* the condition of the final push
PushCarry(carry, self, rhs) ==
    ~(carry = 0 \/ self.discard_carry \/ rhs.discard_carry)

\* the locals of add when it returns: the loop's result and the vector
\* handed to from_backing
AddRun(self, rhs) ==
    LET loop == AddLoop(zip_longest(self.backing, rhs.backing), 1,
                        << >>, 0, << >>)
    IN [carry |-> loop.carry,
        steps |-> loop.steps,
        out |-> IF PushCarry(loop.carry, self, rhs)
                  THEN Append(loop.out, loop.carry)
                  ELSE loop.out]

\* mutant: the sum inherits the operands' discard_carry
add_Inheriting(self, rhs) ==
    [backing |-> AddRun(self, rhs).out,
     discard_carry |-> self.discard_carry \/ rhs.discard_carry]

\* Add::add
add(self, rhs) == from_backing(AddRun(self, rhs).out)

(***************************************************************************)
(* The caller: it builds the two operands, adds them, and may go on with   *)
(* the sum as one operand of a further addition, as in                     *)
(*     let sum = one + two;  let next = sum + three;                       *)
(* and it may convert an operand or the sum back to a native type.         *)
(***************************************************************************)
VARIABLES
    order,      \* byte order of the target: "little" or "big"
    operand,    \* the two BigInts to add: operand.self + operand.rhs
    origin,     \* how each operand was built
    todo,       \* the operands the caller has still to build
    pc,         \* "build", or "added" once sum is the operands' sum
    sum,        \* the BigInt add returned
    carry,      \* add's carry when its loop ended
    steps,      \* what the loop body computed at each position
    got         \* the last to_value call: BigInt read, type, Option returned

vars == << order, operand, origin, todo, pc, sum, carry, steps, got >>

Slots == {"self", "rhs"}

NoCall == [of |-> "none", ty |-> "none", val |-> None]

\* an origin: the constructor ("default", "capacity", "backing", "value") or
\* "sum"; for a value its type and the value; for a capacity, val is the
\* capacity; for a sum, val is the number of additions behind it and
\* discarding is how many operands of its addition had discard_carry
Built(kind, ty, val) ==
    [kind |-> kind, ty |-> ty, val |-> val, discarding |-> 0]

\* byte vectors of length at most n over the given bytes
Backings(bytes, n) == UNION {[1..k -> bytes] : k \in 0..n}

Init ==
    /\ order \in {"little", "big"}
    /\ operand = [s \in Slots |-> Default]
    /\ origin = [s \in Slots |-> Built("default", "none", 0)]
    /\ todo = Slots
    /\ pc = "build"
    /\ sum = Default
    /\ carry = 0
    /\ steps = << >>
    /\ got = NoCall

\* let <slot> = BigInt::with_capacity(capacity)
WithCapacity(slot, capacity) ==
    /\ pc = "build"
    /\ slot \in todo
    /\ todo' = todo \ {slot}
    /\ operand' = [operand EXCEPT ![slot] = with_capacity(capacity)]
    /\ origin' = [origin EXCEPT ![slot] = Built("capacity", "none", capacity)]
    /\ got' = NoCall
    /\ UNCHANGED << order, pc, sum, carry, steps >>

\* let <slot> = BigInt::from_backing(backing)
FromBacking(slot, backing) ==
    /\ pc = "build"
    /\ slot \in todo
    /\ todo' = todo \ {slot}
    /\ operand' = [operand EXCEPT ![slot] = from_backing(backing)]
    /\ origin' = [origin EXCEPT ![slot] = Built("backing", "none", 0)]
    /\ got' = NoCall
    /\ UNCHANGED << order, pc, sum, carry, steps >>

\* let <slot> = BigInt::from_value(value), value of type T
FromValue(slot, T, value) ==
    /\ pc = "build"
    /\ slot \in todo
    /\ todo' = todo \ {slot}
    /\ operand' = [operand EXCEPT ![slot] = from_value(T, value, order)]
    /\ origin' = [origin EXCEPT ![slot] = Built("value", T, value)]
    /\ got' = NoCall
    /\ UNCHANGED << order, pc, sum, carry, steps >>

\* operand.self + operand.rhs
Add ==
    /\ pc = "build"
    /\ todo = {}
    /\ pc' = "added"
    /\ sum' = add(operand["self"], operand["rhs"])
    /\ carry' = AddRun(operand["self"], operand["rhs"]).carry
    /\ steps' = AddRun(operand["self"], operand["rhs"]).steps
    /\ got' = NoCall
    /\ UNCHANGED << order, operand, origin, todo >>

\* how many additions produced a BigInt of this origin
Depth(from) == IF from.kind = "sum" THEN from.val ELSE 0

\* the sum becomes an operand of the next addition; the other operand is
\* built anew
Chain(slot) ==
    /\ pc = "added"
    /\ Max(Depth(origin["self"]), Depth(origin["rhs"])) < MaxChain
    /\ pc' = "build"
    /\ todo' = Slots \ {slot}
    /\ operand' = [operand EXCEPT ![slot] = sum]
    /\ origin' = [origin EXCEPT ![slot] =
                    [kind |-> "sum", ty |-> "none",
                     val |-> 1 + Max(Depth(origin["self"]),
                                     Depth(origin["rhs"])),
                     discarding |-> AsU8(operand["self"].discard_carry)
                                    + AsU8(operand["rhs"].discard_carry)]]
    /\ sum' = Default
    /\ carry' = 0
    /\ steps' = << >>
    /\ got' = NoCall
    /\ UNCHANGED order

\* operand.self.to_value::<T>() or, after an addition, sum.to_value::<T>()
ToValue(which, T) ==
    /\ which = "sum" => pc = "added"
    /\ which # "sum" => which \notin todo
    /\ got' = [of |-> which, ty |-> T,
               val |-> to_value(IF which = "sum" THEN sum ELSE operand[which],
                                T, order)]
    /\ UNCHANGED << order, operand, origin, todo, pc, sum, carry, steps >>

\* the caller builds an operand from the given bytes and types
Construct(bytes, types) ==
    \/ \E slot \in Slots, capacity \in 0..MaxCapacity :
          WithCapacity(slot, capacity)
    \/ \E slot \in Slots, backing \in Backings(bytes, MaxLen) :
          FromBacking(slot, backing)
    \/ \E slot \in Slots, T \in types :
          \E value \in Values(T) : FromValue(slot, T, value)

\* additions, and additions of sums
Next ==
    \/ Construct(FewBytes, Types)
    \/ Add
    \/ \E slot \in Slots : Chain(slot)

Spec == Init /\ [][Next]_vars

\* one addition and conversions back to the native types
NextConv ==
    \/ Construct(SomeBytes, Types)
    \/ Add
    \/ \E which \in {"self", "sum"}, T \in Types : ToValue(which, T)

SpecConv == Init /\ [][NextConv]_vars

\* one addition of operands short enough for their values, read as base-256
\* numbers, to be integers of the model checker
NarrowTypes == {T \in Types : Width(T) <= 2}

NextExact ==
    \/ Construct(MoreBytes, NarrowTypes)
    \/ Add

SpecExact == Init /\ [][NextExact]_vars

(***************************************************************************)
(* What the properties speak of.                                           *)
(***************************************************************************)
Self == operand["self"]
Rhs == operand["rhs"]

Added == pc = "added"

\* max_len of the addition whose result is sum
MaxOperandLen == Max(Len(Self.backing), Len(Rhs.backing))

\* the byte sequence read least significant byte first as a base-256 number
Value(bytes) ==
    LET S[k \in 0..Len(bytes)] ==
          IF k = 0 THEN 0 ELSE S[k - 1] + bytes[k] * Pow256(k - 1)
    IN S[Len(bytes)]

\* both operands come from from_value of types in the given set
BothFrom(types) ==
    \A s \in Slots : origin[s].kind = "value" /\ origin[s].ty \in types

\* both operands come from from_backing or with_capacity
BothRaw == \A s \in Slots : origin[s].kind \in {"backing", "capacity"}

\* the addition ended with a nonzero carry: the sum does not fit max_len bytes
FinalCarry == Added /\ carry # 0

Grew == Len(sum.backing) = MaxOperandLen + 1
Dropped == Len(sum.backing) = MaxOperandLen

(***************************************************************************)
(* C1: reading byte sequences least significant byte first as base-256     *)
(* numbers, the sum's bytes have the value value(a) + value(b) when        *)
(* neither operand discards the final carry, and that value modulo         *)
(* 256^maxLen when at least one operand discards it, for operands of any   *)
(* lengths, equal, different or empty.                                     *)
(***************************************************************************)
C1_SumValue ==
    Added =>
      LET exact == Value(Self.backing) + Value(Rhs.backing)
      IN IF Self.discard_carry \/ Rhs.discard_carry
           THEN Value(sum.backing) = exact % Pow256(MaxOperandLen)
           ELSE Value(sum.backing) = exact

\* operands of different lengths whose carry runs past the shorter one and
\* out of the longer one
C1_Witness ==
    /\ FinalCarry
    /\ Len(Self.backing) < Len(Rhs.backing)
    /\ Len(Self.backing) > 0
    /\ ~Self.discard_carry /\ ~Rhs.discard_carry
    /\ Value(sum.backing) = Value(Self.backing) + Value(Rhs.backing)

(***************************************************************************)
(* C2: two operands from_value of unsigned types of one width whose sum    *)
(* overflows that width give an output one byte longer than maxLen; two    *)
(* operands from_value of signed or float types of one width whose sum     *)
(* overflows give an output of exactly maxLen bytes; and the output of any *)
(* addition has maxLen or maxLen + 1 bytes.                                *)
(***************************************************************************)
C2_GrowthByType ==
    /\ Added => (Grew \/ Dropped)
    /\ FinalCarry /\ Len(Self.backing) = Len(Rhs.backing) =>
         /\ BothFrom(UnsignedTypes) => Grew
         /\ BothFrom(Types \ UnsignedTypes) => Dropped

\* two f32 operands whose bit patterns overflow four bytes
C2_Witness ==
    /\ FinalCarry
    /\ BothFrom(FloatTypes)
    /\ Dropped

(***************************************************************************)
(* C3, as claimed: when the operands have different policies and the final *)
(* carry is nonzero the sum grows to maxLen + 1 bytes, and the final carry *)
(* is dropped only when both operands discard.                             *)
(***************************************************************************)
C3_Claimed ==
    FinalCarry =>
      /\ Self.discard_carry # Rhs.discard_carry => Grew
      /\ Dropped => (Self.discard_carry /\ Rhs.discard_carry)

(***************************************************************************)
(* C3, amended: when the operands have different policies and the final    *)
(* carry is nonzero the carry is dropped and the sum has maxLen bytes; the  *)
(* final carry is appended only when neither operand discards.             *)
(***************************************************************************)
C3_MixedDrops ==
    FinalCarry =>
      /\ Self.discard_carry # Rhs.discard_carry => Dropped
      /\ Grew <=> (~Self.discard_carry /\ ~Rhs.discard_carry)
      /\ Grew => sum.backing[MaxOperandLen + 1] = carry

\* an unsigned-sourced and a signed-sourced operand whose sum overflows
C3_Witness ==
    /\ FinalCarry
    /\ origin["self"].kind = "value" /\ origin["self"].ty \in UnsignedTypes
    /\ origin["rhs"].kind = "value" /\ origin["rhs"].ty \notin UnsignedTypes
    /\ Dropped

(***************************************************************************)
(* C4, as claimed: a BigInt from from_backing or with_capacity does not    *)
(* grow: when two such operands add with a nonzero final carry the carry   *)
(* is dropped and the sum has exactly maxLen bytes.                        *)
(***************************************************************************)
C4_Claimed == FinalCarry /\ BothRaw => Dropped

(***************************************************************************)
(* C4, amended: a BigInt from from_backing or with_capacity has            *)
(* discard_carry false, the growing policy: when two such operands add     *)
(* with a nonzero final carry the carry is appended and the sum has        *)
(* maxLen + 1 bytes.                                                       *)
(***************************************************************************)
C4_RawGrows ==
    /\ \A s \in Slots :
         origin[s].kind \in {"backing", "capacity"} => ~operand[s].discard_carry
    /\ FinalCarry /\ BothRaw => Grew

\* two from_backing operands whose sum overflows
C4_Witness ==
    /\ FinalCarry
    /\ \A s \in Slots : origin[s].kind = "backing"
    /\ Grew

(***************************************************************************)
(* C5: the sum never inherits an operand's discard policy: it has the      *)
(* flag from_backing gives, also when both operands discard; and when a    *)
(* sum is added to an operand that does not discard and the final carry is *)
(* nonzero, the result grows to max(len(s), len(c)) + 1 bytes.             *)
(***************************************************************************)
C5_SumNotInheriting ==
    /\ Added => sum.discard_carry = from_backing(sum.backing).discard_carry
    /\ \A s \in Slots : origin[s].kind = "sum" => ~operand[s].discard_carry
    /\ \A s \in Slots :
         /\ FinalCarry
         /\ origin[s].kind = "sum"
         /\ \A c \in Slots \ {s} : ~operand[c].discard_carry
         => Grew

\* the sum of two discarding operands, added to a growing operand, overflows
C5_Witness ==
    /\ FinalCarry
    /\ origin["self"].kind = "sum"
    /\ origin["self"].discarding = 2
    /\ ~Rhs.discard_carry
    /\ Grew

(***************************************************************************)
(* C6, as documented on AsBytes::keep_carry: for two from_value operands   *)
(* of a type whose keep_carry() is true the nonzero final carry is         *)
(* appended to the output; for a type whose keep_carry() is false it is    *)
(* discarded.                                                              *)
(***************************************************************************)
C6_KeepCarryDoc ==
    \A T \in Types :
      FinalCarry /\ BothFrom({T}) =>
        IF keep_carry(T)
          THEN Grew /\ sum.backing[Len(sum.backing)] = carry
          ELSE Dropped

(***************************************************************************)
(* What the conversion properties speak of.                                *)
(***************************************************************************)
\* the BigInt the last to_value call read
Read == IF got.of = "sum" THEN sum ELSE operand[got.of]

\* the last call was self.to_value::<T>() on self = from_value(v), v of type T
RoundTrip ==
    /\ got.of = "self"
    /\ origin["self"].kind = "value"
    /\ got.ty = origin["self"].ty

(***************************************************************************)
(* C7, as claimed: for every supported type T and every value v of T,      *)
(* from_value(v).to_value::<T>() == Some(v), and the encoding has as many  *)
(* bytes as T is wide.                                                     *)
(***************************************************************************)
C7_Claimed ==
    RoundTrip =>
      /\ OptionEq(got.ty, got.val, Some(origin["self"].val))
      /\ Len(Self.backing) = Width(got.ty)

(***************************************************************************)
(* C7, amended: for every supported type T and every value v of T,         *)
(* from_value(v).to_value::<T>() is Some of the value with v's bit         *)
(* pattern, which == finds equal to Some(v) unless v is a float NaN, and   *)
(* the encoding has as many bytes as T is wide.                            *)
(***************************************************************************)
C7_RoundTrip ==
    RoundTrip =>
      LET T == got.ty
          v == origin["self"].val
      IN /\ got.val = Some(v)
         /\ OptionEq(T, got.val, Some(v)) <=> ~(T \in FloatTypes /\ F32IsNaN(v))
         /\ Len(Self.backing) = Width(T)

\* a negative i16 read back on a big-endian target
C7_Witness ==
    /\ RoundTrip
    /\ order = "big"
    /\ got.ty = "i16"
    /\ origin["self"].val = -4
    /\ Self.backing = << 255, 252 >>
    /\ got.val = Some(-4)

(***************************************************************************)
(* C8: to_value to a type T gives None whenever the BigInt's byte length   *)
(* differs from T's width, for every T and every byte sequence, even when  *)
(* the number would fit; it gives Some value whenever the length is the    *)
(* width; there is no other outcome.                                       *)
(***************************************************************************)
C8_LengthChecked ==
    got.of # "none" =>
      /\ Len(Read.backing) # Width(got.ty) => got.val = None
      /\ Len(Read.backing) = Width(got.ty) => Len(got.val) = 1
      /\ Len(got.val) \in {0, 1}

\* the one byte of 3u8 read as a u16: the number fits, the length does not
C8_Witness ==
    /\ got.of = "self"
    /\ origin["self"].kind = "value"
    /\ origin["self"].ty = "u8"
    /\ origin["self"].val = 3
    /\ got.ty = "u16"
    /\ got.val = None

(***************************************************************************)
(* C9: for two operands built from raw byte sequences of equal length and  *)
(* equal policy flag, add(a, b) and add(b, a) give the same bytes.         *)
(***************************************************************************)
C9_Commutes ==
    /\ Added
    /\ Len(Self.backing) = Len(Rhs.backing)
    /\ Self.discard_carry = Rhs.discard_carry
    => sum.backing = add(Rhs, Self).backing

\* two different from_backing operands of two bytes or more whose first
\* position carries into the second
C9_Witness ==
    /\ Added
    /\ \A s \in Slots : origin[s].kind = "backing"
    /\ Len(Self.backing) = Len(Rhs.backing)
    /\ Len(Self.backing) >= 2
    /\ Self.backing # Rhs.backing
    /\ steps[1].overflow = 1
    /\ sum.backing = add(Rhs, Self).backing

=============================================================================
